---- MODULE Spec2Model ----
(***************************************************************************)
(* graph-py: the node/edge data model (core.py), the directed and          *)
(* undirected variants (graphs/), the traversal and shortest-path          *)
(* algorithms (algorithms/bfs.py, dfs.py, dijkstra.py, bellman_ford.py),   *)
(* the set operations (algorithms/set_operations.py) and the search        *)
(* strategy registry of Graph (core.py).                                   *)
(*                                                                         *)
(* Node ids are the integers 1..MaxNodes; they stand for id strings that   *)
(* compare in that order ("A" < "B" < "C"), which is the order heapq uses  *)
(* to break ties between equal distances.  Node objects live in `heap`     *)
(* (a handle is an index into it) so that the back-reference node.graph    *)
(* and object identity are part of the state.                              *)
(***************************************************************************)
EXTENDS Integers, Sequences, FiniteSets, TLC

\* ---------------------------------------------------------------- bounds
MaxNodes == 3
MaxEdges == 3
\* edges of the graphs the non-negative shortest-path runs are made on
MaxWeightedEdges == 4
\* nodes and edges of each of the two graphs the set operations combine
MaxSetNodes == 2
MaxSetEdges == 2
\* edges of the graphs the depth-first searches are made on
MaxDfsEdges == 4
\* node objects, and edges of each of the graphs that share node objects
MaxSharedNodes == 3
MaxSharedEdges == 1

NodeIds == 1..MaxNodes
Weights == {-1, 0, 1}
NonNegWeights == {0, 1}
HopWeights == {1, 5}
Kinds == {"Graph", "DirectedGraph", "UndirectedGraph"}
GraphNames == {"a", "b", "r"}

\* math.inf: larger than every finite distance of the model
Inf == 1000000

VARIABLES
    kind,        \* kind[g]: the class of graph g ("absent": not constructed)
    nodes,       \* nodes[g]: Graph.nodes, a sequence of node handles
    edges,       \* edges[g]: Graph.edges, a sequence of Edge records
    heap,        \* heap[h]: the Node object with handle h: [id, graph]
    registry,    \* registry[g]: _search_strategies and _default_strategy_key
    ret          \* outcome of the last call of an algorithm

vars == <<kind, nodes, edges, heap, registry, ret>>

\* ------------------------------------------------------------ sequences
Range(s) == {s[i] : i \in 1..Len(s)}

RECURSIVE Reverse(_)
Reverse(s) == IF s = <<>> THEN <<>> ELSE Append(Reverse(Tail(s)), Head(s))

\* ------------------------------------------------------------ core.py
Edge(i, s, t, w) == [id |-> i, source |-> s, target |-> t, weight |-> w]

NodeIdSeq(g) == [i \in 1..Len(nodes[g]) |-> heap[nodes[g][i]].id]

NodeIdSet(g) == {heap[h].id : h \in Range(nodes[g])}

\* id_to_node = {node.id: node for node in graph.nodes}: the last node wins
IdToNode(g, i) ==
    LET idx == {k \in 1..Len(nodes[g]) : heap[nodes[g][k]].id = i}
    IN nodes[g][CHOOSE k \in idx : \A j \in idx : j <= k]

NoResult ==
    [op |-> "none", ga |-> "", gb |-> "", src |-> 0, trg |-> 0, tag |-> "none", path |-> <<>>,
     argtype |-> "none", arg |-> "", strategy |-> ""]

Result(op, s, t, out) ==
    [NoResult EXCEPT !.op = op, !.src = s, !.trg = t, !.tag = out.tag, !.path = out.path]

Path(p) == [tag |-> "path", path |-> p]
None == [tag |-> "None", path |-> <<>>]
Raise(e) == [tag |-> e, path |-> <<>>]

\* ------------------------------------------- core.py, the search registry
\* the strategy objects: the RegexNodeSearch that Graph.__init__ makes, and
\* those a caller makes; StrategyName is the name each gets in __init__
Builtin == "RegexNodeSearch()"
CallerStrategies == {"RegexNodeSearch()'", "TFIDFNodeSearch()", "BM25NodeSearch()"}
StrategyName(s) ==
    CASE s = "TFIDFNodeSearch()" -> "tf_idf"
      [] s = "BM25NodeSearch()" -> "bm25"
      [] OTHER -> "regex"

\* the truth value Python gives a key or an alias: None and "" are false
Truthy(k) == k # "None" /\ k # ""

\* the registry before Graph.__init__ ran, and after it registered the
\* built-in strategy as the default
NoRegistry == [strategies |-> <<>>, default |-> "None"]
NewRegistry == [strategies |-> <<[key |-> "regex", strategy |-> Builtin]>>, default |-> "regex"]

\* key in self._search_strategies, self._search_strategies[key]
Registered(sts, k) == \E i \in 1..Len(sts) : sts[i].key = k
StrategyAt(sts, k) == sts[CHOOSE i \in 1..Len(sts) : sts[i].key = k].strategy

\* self._search_strategies[key] = strategy: a dict keeps the place of a key
\* it already has, and puts a new key last
Store(sts, k, s) ==
    IF Registered(sts, k)
    THEN [i \in 1..Len(sts) |-> IF sts[i].key = k THEN [key |-> k, strategy |-> s] ELSE sts[i]]
    ELSE Append(sts, [key |-> k, strategy |-> s])

register_search_strategy(reg, s, alias, default) ==
    LET key == IF Truthy(alias) THEN alias ELSE StrategyName(s)
    IN [strategies |-> Store(reg.strategies, key, s),
        default |-> IF default \/ reg.default = "None" THEN key ELSE reg.default]

\* unregister_search_strategy without the choice of a new default
UnregisterKeepDefault(reg, key) ==
    [strategies |-> SelectSeq(reg.strategies, LAMBDA r : r.key # key), default |-> reg.default]

unregister_search_strategy(reg, key) ==
    IF Registered(reg.strategies, key)
    THEN LET rest == SelectSeq(reg.strategies, LAMBDA r : r.key # key)
         IN [strategies |-> rest,
             default |-> IF reg.default = key
                         THEN (IF rest = <<>> THEN "None" ELSE rest[1].key)
                         ELSE reg.default]
    ELSE reg

\* _resolve_search_strategy with the strategy chosen before every other rule
ResolveDefaultFirst(reg, argtype, arg) ==
    IF Truthy(reg.default) /\ Registered(reg.strategies, reg.default)
        THEN [tag |-> "ok", strategy |-> StrategyAt(reg.strategies, reg.default)]
    ELSE IF argtype = "instance" THEN [tag |-> "ok", strategy |-> arg]
    ELSE IF argtype = "key" THEN
        IF ~Registered(reg.strategies, arg)
        THEN [tag |-> "UnknownStrategyError", strategy |-> ""]
        ELSE [tag |-> "ok", strategy |-> StrategyAt(reg.strategies, arg)]
    ELSE IF reg.strategies # <<>>
        THEN [tag |-> "ok", strategy |-> reg.strategies[1].strategy]
    ELSE [tag |-> "UnknownStrategyError", strategy |-> ""]

\* _resolve_search_strategy: the argument is a strategy object ("instance"),
\* a string ("key") or None ("none")
ResolveSearchStrategy(reg, argtype, arg) ==
    IF argtype = "instance" THEN [tag |-> "ok", strategy |-> arg]
    ELSE IF argtype = "key" THEN
        IF ~Registered(reg.strategies, arg)
        THEN [tag |-> "UnknownStrategyError", strategy |-> ""]
        ELSE [tag |-> "ok", strategy |-> StrategyAt(reg.strategies, arg)]
    ELSE IF Truthy(reg.default) /\ Registered(reg.strategies, reg.default)
        THEN [tag |-> "ok", strategy |-> StrategyAt(reg.strategies, reg.default)]
    ELSE IF reg.strategies # <<>>
        THEN [tag |-> "ok", strategy |-> reg.strategies[1].strategy]
    ELSE [tag |-> "UnknownStrategyError", strategy |-> ""]

\* strategy_impl.search: RegexNodeSearch compiles the pattern first and raises
\* SearchError when it is no regular expression; the two others raise
\* NotImplementedError
RunSearch(s, pattern) ==
    IF StrategyName(s) # "regex" THEN "NotImplementedError"
    ELSE IF pattern = "invalid" THEN "SearchError"
    ELSE "results"

\* Graph.search_nodes: the strategy field is the object whose search ran
search_nodes(reg, pattern, argtype, arg) ==
    LET r == ResolveSearchStrategy(reg, argtype, arg)
    IN [NoResult EXCEPT !.op = "search_nodes", !.argtype = argtype, !.arg = arg,
                        !.strategy = r.strategy,
                        !.tag = IF r.tag = "ok" THEN RunSearch(r.strategy, pattern) ELSE r.tag]

RegisterSearchStrategy(g, s, alias, default) ==
    /\ ret = NoResult
    /\ kind[g] # "absent"
    /\ registry' = [registry EXCEPT ![g] = register_search_strategy(@, s, alias, default)]
    /\ UNCHANGED <<kind, nodes, edges, heap, ret>>

UnregisterSearchStrategy(g, key) ==
    /\ ret = NoResult
    /\ kind[g] # "absent"
    /\ registry' = [registry EXCEPT ![g] = unregister_search_strategy(@, key)]
    /\ UNCHANGED <<kind, nodes, edges, heap, ret>>

\* Graph.set_default_search_strategy
SetDefaultSearchStrategy(g, key) ==
    /\ ret = NoResult
    /\ kind[g] # "absent"
    /\ IF ~Registered(registry[g].strategies, key)
       THEN /\ ret' = [NoResult EXCEPT !.op = "set_default_search_strategy",
                                       !.argtype = "key", !.arg = key,
                                       !.tag = "UnknownStrategyError"]
            /\ UNCHANGED registry
       ELSE /\ registry' = [registry EXCEPT ![g].default = key]
            /\ UNCHANGED ret
    /\ UNCHANGED <<kind, nodes, edges, heap>>

SearchNodes(g, pattern, argtype, arg) ==
    /\ ret = NoResult
    /\ kind[g] # "absent"
    /\ ret' = search_nodes(registry[g], pattern, argtype, arg)
    /\ UNCHANGED <<kind, nodes, edges, heap, registry>>

\* the caller takes the value (or the exception) of the call that ended and
\* lets go of it (a graph a set operation built is dropped with its nodes);
\* the library is synchronous, so the next call starts after that
Return ==
    /\ ret # NoResult
    /\ ret' = NoResult
    /\ kind' = [kind EXCEPT !["r"] = "absent"]
    /\ nodes' = [nodes EXCEPT !["r"] = <<>>]
    /\ edges' = [edges EXCEPT !["r"] = <<>>]
    /\ heap' = SelectSeq(heap, LAMBDA n : n.graph # "r")
    /\ registry' = [registry EXCEPT !["r"] = NoRegistry]

\* Graph.add_node: node.graph = self; self.nodes.append(node), for a new Node
AddNode(g, i) ==
    /\ ret = NoResult
    /\ kind[g] # "absent"
    /\ Len(nodes[g]) < MaxNodes
    /\ heap' = Append(heap, [id |-> i, graph |-> g])
    /\ nodes' = [nodes EXCEPT ![g] = Append(@, Len(heap) + 1)]
    /\ ret' = NoResult
    /\ UNCHANGED <<kind, edges, registry>>

\* add_node that leaves the back-reference of a node that has one
AddNodeKeepGraph(hp, h, g) ==
    IF hp[h].graph = "none" THEN [hp EXCEPT ![h].graph = g] ELSE hp

\* node.graph = self, on the Node object with handle h
add_node(hp, h, g) == [hp EXCEPT ![h].graph = g]

\* Graph.add_node for a Node object that exists, whatever graph it is in
AddExistingNode(g, h) ==
    /\ ret = NoResult
    /\ kind[g] # "absent"
    /\ Len(nodes[g]) < MaxNodes
    /\ heap' = add_node(heap, h, g)
    /\ nodes' = [nodes EXCEPT ![g] = Append(@, h)]
    /\ UNCHANGED <<kind, edges, registry, ret>>

\* the test with one orientation only: A-B and B-A count as different
ConnectsOneWay(es, e) ==
    \E k \in 1..Len(es) : es[k].source = e.source /\ es[k].target = e.target

\* the test of UndirectedGraph.add_edge: some stored edge connects the pair
Connects(es, e) ==
    \E k \in 1..Len(es) :
        \/ (es[k].source = e.source /\ es[k].target = e.target)
        \/ (es[k].source = e.target /\ es[k].target = e.source)

\* Graph.add_edge (inherited by DirectedGraph), UndirectedGraph.add_edge
AddEdgeTo(k, es, e) ==
    IF k = "UndirectedGraph" /\ Connects(es, e) THEN es ELSE Append(es, e)

\* what a call of add_edge did: it returns nothing, the caller sees the effect
Stored(es, es2) == [NoResult EXCEPT !.op = "add_edge",
                                    !.tag = IF es2 = es THEN "ignored" ELSE "stored"]

AddEdge(g, e, max) ==
    /\ ret = NoResult
    /\ kind[g] # "absent"
    /\ Len(edges[g]) < max
    /\ edges' = [edges EXCEPT ![g] = AddEdgeTo(kind[g], @, e)]
    /\ ret' = Stored(edges[g], edges'[g])
    /\ UNCHANGED <<kind, nodes, heap, registry>>

\* Graph.adjacency / UndirectedGraph.adjacency / DirectedGraph.adjacency.
\* The value is [err, keys, adj]: err when adj[e.source] or adj[e.target]
\* is read for an id that is no key (KeyError); keys is the dict's key
\* order (first insertion of each node id).
RECURSIVE FirstOccurrences(_, _)
FirstOccurrences(s, seen) ==
    IF s = <<>> THEN <<>>
    ELSE IF Head(s) \in seen THEN FirstOccurrences(Tail(s), seen)
    ELSE <<Head(s)>> \o FirstOccurrences(Tail(s), seen \cup {Head(s)})

RECURSIVE AdjFill(_, _, _)
AdjFill(k, es, adj) ==
    IF es = <<>> THEN [err |-> FALSE, adj |-> adj]
    ELSE LET e == Head(es) IN
         IF e.source \notin DOMAIN adj THEN [err |-> TRUE, adj |-> adj]
         ELSE LET a1 == [adj EXCEPT ![e.source] = Append(@, e.target)] IN
              IF k = "DirectedGraph" THEN AdjFill(k, Tail(es), a1)
              ELSE IF e.target \notin DOMAIN adj THEN [err |-> TRUE, adj |-> a1]
              ELSE AdjFill(k, Tail(es), [a1 EXCEPT ![e.target] = Append(@, e.source)])

Adjacency(g) ==
    LET r == AdjFill(kind[g], edges[g], [i \in NodeIdSet(g) |-> <<>>])
    IN [err |-> r.err, keys |-> FirstOccurrences(NodeIdSeq(g), {}), adj |-> r.adj]

\* adjacency.get(node_id, [])
AdjGet(adj, i) == IF i \in DOMAIN adj THEN adj[i] ELSE <<>>

\* ------------------------------------------------------ algorithms/bfs.py
RECURSIVE BfsNeighbors(_, _, _, _, _, _)
BfsNeighbors(adj, trg, path, nbrs, queue, visited) ==
    IF nbrs = <<>> THEN [done |-> FALSE, path |-> <<>>, queue |-> queue, visited |-> visited]
    ELSE LET n == Head(nbrs) IN
         IF n \in visited THEN BfsNeighbors(adj, trg, path, Tail(nbrs), queue, visited)
         ELSE IF n = trg
              THEN [done |-> TRUE, path |-> Append(path, n), queue |-> queue,
                    visited |-> visited \cup {n}]
              ELSE BfsNeighbors(adj, trg, path, Tail(nbrs),
                                Append(queue, [id |-> n, path |-> Append(path, n)]),
                                visited \cup {n})

\* a depth-first loop in place of BfsLoop: the last entry is taken, a node is
\* marked and tested when it is taken
RECURSIVE BfsLoopDepthFirst(_, _, _, _)
BfsLoopDepthFirst(adj, trg, queue, visited) ==
    IF queue = <<>> THEN [found |-> FALSE, path |-> <<>>]
    ELSE LET cur == queue[Len(queue)]
             rest == SubSeq(queue, 1, Len(queue) - 1)
             nbrs == AdjGet(adj, cur.id)
         IN IF cur.id = trg THEN [found |-> TRUE, path |-> cur.path]
            ELSE IF cur.id \in visited /\ Len(cur.path) > 1
                 THEN BfsLoopDepthFirst(adj, trg, rest, visited)
            ELSE BfsLoopDepthFirst(adj, trg,
                    rest \o [k \in 1..Len(nbrs) |->
                                [id |-> nbrs[Len(nbrs) + 1 - k],
                                 path |-> Append(cur.path, nbrs[Len(nbrs) + 1 - k])]],
                    visited \cup {cur.id})

RECURSIVE BfsLoop(_, _, _, _)
BfsLoop(adj, trg, queue, visited) ==
    IF queue = <<>> THEN [found |-> FALSE, path |-> <<>>]
    ELSE LET cur == Head(queue)
             r == BfsNeighbors(adj, trg, cur.path, AdjGet(adj, cur.id), Tail(queue), visited)
         IN IF r.done THEN [found |-> TRUE, path |-> r.path]
            ELSE BfsLoop(adj, trg, r.queue, r.visited)

\* bfs(graph, src_node, trg_node), src and trg handles of members of g
bfs(g, src, trg) ==
    IF heap[src].id = heap[trg].id THEN Path(<<src>>)
    ELSE LET A == Adjacency(g) IN
         IF A.err THEN Raise("KeyError")
         ELSE LET r == BfsLoop(A.adj, heap[trg].id,
                               <<[id |-> heap[src].id, path |-> <<heap[src].id>>]>>,
                               {heap[src].id})
              IN IF r.found THEN Path([k \in 1..Len(r.path) |-> IdToNode(g, r.path[k])])
                 ELSE None

CallBfs(g) ==
    \E src \in Range(nodes[g]), trg \in Range(nodes[g]) :
        /\ ret = NoResult
        /\ ret' = Result("bfs", src, trg, bfs(g, src, trg))
        /\ UNCHANGED <<kind, nodes, edges, heap, registry>>

\* ------------------------------------------------------ algorithms/dfs.py
\* the for loop of dfs over nbrs, which is the reversed adjacency list: a
\* neighbour that is not visited is pushed with the path to it
RECURSIVE DfsPush(_, _, _, _)
DfsPush(nbrs, path, stack, visited) ==
    IF nbrs = <<>> THEN stack
    ELSE IF Head(nbrs) \in visited THEN DfsPush(Tail(nbrs), path, stack, visited)
    ELSE DfsPush(Tail(nbrs), path,
                 Append(stack, [id |-> Head(nbrs), path |-> Append(path, Head(nbrs))]),
                 visited)

\* the loop of dfs with the neighbours pushed in adjacency order
RECURSIVE DfsLoopInOrder(_, _, _, _)
DfsLoopInOrder(adj, trg, stack, visited) ==
    IF stack = <<>> THEN [found |-> FALSE, path |-> <<>>]
    ELSE LET cur == stack[Len(stack)]
             rest == SubSeq(stack, 1, Len(stack) - 1)
         IN IF cur.id \in visited THEN DfsLoopInOrder(adj, trg, rest, visited)
            ELSE IF cur.id = trg THEN [found |-> TRUE, path |-> cur.path]
            ELSE DfsLoopInOrder(adj, trg,
                     DfsPush(AdjGet(adj, cur.id), cur.path, rest, visited \cup {cur.id}),
                     visited \cup {cur.id})

\* while stack: pop the last entry, skip it when visited, else mark it, end
\* at the target, else push its neighbours in reverse adjacency order
RECURSIVE DfsLoop(_, _, _, _)
DfsLoop(adj, trg, stack, visited) ==
    IF stack = <<>> THEN [found |-> FALSE, path |-> <<>>]
    ELSE LET cur == stack[Len(stack)]
             rest == SubSeq(stack, 1, Len(stack) - 1)
         IN IF cur.id \in visited THEN DfsLoop(adj, trg, rest, visited)
            ELSE IF cur.id = trg THEN [found |-> TRUE, path |-> cur.path]
            ELSE DfsLoop(adj, trg,
                     DfsPush(Reverse(AdjGet(adj, cur.id)), cur.path, rest,
                             visited \cup {cur.id}),
                     visited \cup {cur.id})

\* dfs(graph, src_node, trg_node), src and trg handles of members of g
dfs(g, src, trg) ==
    IF heap[src].id = heap[trg].id THEN Path(<<src>>)
    ELSE LET A == Adjacency(g) IN
         IF A.err THEN Raise("KeyError")
         ELSE LET r == DfsLoop(A.adj, heap[trg].id,
                               <<[id |-> heap[src].id, path |-> <<heap[src].id>>]>>, {})
              IN IF r.found THEN Path([k \in 1..Len(r.path) |-> IdToNode(g, r.path[k])])
                 ELSE None

CallDfs(g) ==
    \E src \in Range(nodes[g]), trg \in Range(nodes[g]) :
        /\ ret = NoResult
        /\ ret' = Result("dfs", src, trg, dfs(g, src, trg))
        /\ UNCHANGED <<kind, nodes, edges, heap, registry>>

\* ------------------------------------------------- algorithms/dijkstra.py
\* _build_weight_lookup: keyed by (source, target), a later edge overwrites
\* an earlier one with the same key
RECURSIVE BuildWeightLookup(_, _)
BuildWeightLookup(es, lookup) ==
    IF es = <<>> THEN lookup
    ELSE LET e == Head(es)
             key == <<e.source, e.target>>
         IN BuildWeightLookup(Tail(es),
                [k \in DOMAIN lookup \cup {key} |-> IF k = key THEN e.weight ELSE lookup[k]])

EmptyLookup == [k \in {} |-> 0]

\* the weight an edge has when it carries no weight
DefaultWeight == 1

\* _resolve_weight
ResolveWeight(lookup, s, t) ==
    IF <<s, t>> \in DOMAIN lookup THEN lookup[<<s, t>>]
    ELSE IF <<t, s>> \in DOMAIN lookup THEN lookup[<<t, s>>]
    ELSE DefaultWeight

\* a heap kept in the wrong order: the largest entry is popped
HeapMax(h) ==
    CHOOSE x \in h : \A y \in h : x[1] > y[1] \/ (x[1] = y[1] /\ x[2] >= y[2])

\* heappop on (distance, id) tuples: the least distance, then the least id
HeapMin(h) ==
    CHOOSE x \in h : \A y \in h : x[1] < y[1] \/ (x[1] = y[1] /\ x[2] <= y[2])

\* path_ids: walk `previous` from the target until None (0), then reverse;
\* a walk longer than the number of ids never ends
RECURSIVE WalkPrevious(_, _, _, _)
WalkPrevious(prev, cur, acc, fuel) ==
    IF cur = 0 THEN [ok |-> TRUE, ids |-> Reverse(acc)]
    ELSE IF fuel = 0 THEN [ok |-> FALSE, ids |-> <<>>]
    ELSE WalkPrevious(prev, prev[cur], Append(acc, cur), fuel - 1)

\* lines 49-59 of dijkstra.py, 45-55 of bellman_ford.py
Reconstruct(g, dist, prev, trg) ==
    IF dist[trg] = Inf THEN None
    ELSE LET w == WalkPrevious(prev, trg, <<>>, Cardinality(DOMAIN prev) + 1) IN
         IF w.ok THEN Path([k \in 1..Len(w.ids) |-> IdToNode(g, w.ids[k])])
         ELSE Raise("Diverges")

\* the for loop over the neighbours of the popped node
RECURSIVE DijkstraRelax(_, _, _, _, _, _, _)
DijkstraRelax(lookup, cur, curDist, nbrs, hq, dist, prev) ==
    IF nbrs = <<>> THEN [err |-> "none", hq |-> hq, dist |-> dist, prev |-> prev]
    ELSE LET n == Head(nbrs)
             w == ResolveWeight(lookup, cur, n)
         IN IF w < 0 THEN [err |-> "ValueError", hq |-> hq, dist |-> dist, prev |-> prev]
            ELSE IF n \notin DOMAIN dist
                 THEN [err |-> "KeyError", hq |-> hq, dist |-> dist, prev |-> prev]
            ELSE IF curDist + w < dist[n]
                 THEN DijkstraRelax(lookup, cur, curDist, Tail(nbrs),
                                    hq \cup {<<curDist + w, n>>},
                                    [dist EXCEPT ![n] = curDist + w],
                                    [prev EXCEPT ![n] = cur])
                 ELSE DijkstraRelax(lookup, cur, curDist, Tail(nbrs), hq, dist, prev)

\* the while loop over the heap
RECURSIVE DijkstraLoop(_, _, _, _, _, _)
DijkstraLoop(adj, lookup, trg, hq, dist, prev) ==
    IF hq = {} THEN [err |-> "none", dist |-> dist, prev |-> prev]
    ELSE LET top == HeapMin(hq)
             rest == hq \ {top}
         IN IF top[1] > dist[top[2]] THEN DijkstraLoop(adj, lookup, trg, rest, dist, prev)
            ELSE IF top[2] = trg THEN [err |-> "none", dist |-> dist, prev |-> prev]
            ELSE LET r == DijkstraRelax(lookup, top[2], top[1], AdjGet(adj, top[2]),
                                        rest, dist, prev)
                 IN IF r.err # "none" THEN [err |-> r.err, dist |-> dist, prev |-> prev]
                    ELSE DijkstraLoop(adj, lookup, trg, r.hq, r.dist, r.prev)

InitDistances(g, src) == [i \in NodeIdSet(g) |-> IF i = src THEN 0 ELSE Inf]
InitPrevious(g) == [i \in NodeIdSet(g) |-> 0]

dijkstra(g, src, trg) ==
    IF heap[src].id = heap[trg].id THEN Path(<<src>>)
    ELSE LET A == Adjacency(g) IN
         IF A.err THEN Raise("KeyError")
         ELSE LET r == DijkstraLoop(A.adj, BuildWeightLookup(edges[g], EmptyLookup),
                                    heap[trg].id, {<<0, heap[src].id>>},
                                    InitDistances(g, heap[src].id), InitPrevious(g))
              IN IF r.err # "none" THEN Raise(r.err)
                 ELSE Reconstruct(g, r.dist, r.prev, heap[trg].id)

CallDijkstra(g) ==
    \E src \in Range(nodes[g]), trg \in Range(nodes[g]) :
        /\ ret = NoResult
        /\ ret' = Result("dijkstra", src, trg, dijkstra(g, src, trg))
        /\ UNCHANGED <<kind, nodes, edges, heap, registry>>

\* ---------------------------------------------- algorithms/bellman_ford.py
RECURSIVE ExpandTargets(_, _, _)
ExpandTargets(lookup, s, targets) ==
    IF targets = <<>> THEN <<>>
    ELSE <<[s |-> s, t |-> Head(targets), w |-> ResolveWeight(lookup, s, Head(targets))]>>
         \o ExpandTargets(lookup, s, Tail(targets))

\* _expand_edges: the adjacency items in key order, each target in order
RECURSIVE ExpandEdges(_, _, _)
ExpandEdges(keys, adj, lookup) ==
    IF keys = <<>> THEN <<>>
    ELSE ExpandTargets(lookup, Head(keys), adj[Head(keys)])
         \o ExpandEdges(Tail(keys), adj, lookup)

\* inf + weight is inf
Plus(d, w) == IF d = Inf THEN Inf ELSE d + w

\* one pass of the relaxation loop over the expanded edges
RECURSIVE RelaxPass(_, _, _, _)
RelaxPass(es, dist, prev, updated) ==
    IF es = <<>> THEN [err |-> "none", dist |-> dist, prev |-> prev, updated |-> updated]
    ELSE LET e == Head(es) IN
         IF dist[e.s] = Inf THEN RelaxPass(Tail(es), dist, prev, updated)
         ELSE IF e.t \notin DOMAIN dist
              THEN [err |-> "KeyError", dist |-> dist, prev |-> prev, updated |-> updated]
         ELSE IF dist[e.s] + e.w < dist[e.t]
              THEN RelaxPass(Tail(es), [dist EXCEPT ![e.t] = dist[e.s] + e.w],
                             [prev EXCEPT ![e.t] = e.s], TRUE)
              ELSE RelaxPass(Tail(es), dist, prev, updated)

\* one relaxation pass too few: range(len(graph.nodes) - 2)
RECURSIVE RelaxPassesOneShort(_, _, _, _)
RelaxPassesOneShort(n, es, dist, prev) ==
    IF n <= 1 THEN [err |-> "none", dist |-> dist, prev |-> prev]
    ELSE LET r == RelaxPass(es, dist, prev, FALSE) IN
         IF r.err # "none" THEN [err |-> r.err, dist |-> dist, prev |-> prev]
         ELSE IF ~r.updated THEN [err |-> "none", dist |-> r.dist, prev |-> r.prev]
         ELSE RelaxPassesOneShort(n - 1, es, r.dist, r.prev)

\* for _ in range(len(graph.nodes) - 1), leaving once a pass updates nothing
RECURSIVE RelaxPasses(_, _, _, _)
RelaxPasses(n, es, dist, prev) ==
    IF n <= 0 THEN [err |-> "none", dist |-> dist, prev |-> prev]
    ELSE LET r == RelaxPass(es, dist, prev, FALSE) IN
         IF r.err # "none" THEN [err |-> r.err, dist |-> dist, prev |-> prev]
         ELSE IF ~r.updated THEN [err |-> "none", dist |-> r.dist, prev |-> r.prev]
         ELSE RelaxPasses(n - 1, es, r.dist, r.prev)

\* the last pass: an edge that still shortens a distance is a negative cycle
RECURSIVE CycleCheck(_, _)
CycleCheck(es, dist) ==
    IF es = <<>> THEN "none"
    ELSE LET e == Head(es) IN
         IF e.t \notin DOMAIN dist THEN "KeyError"
         ELSE IF Plus(dist[e.s], e.w) < dist[e.t] THEN "ValueError"
         ELSE CycleCheck(Tail(es), dist)

bellman_ford(g, src, trg) ==
    IF heap[src].id = heap[trg].id THEN Path(<<src>>)
    ELSE LET A == Adjacency(g) IN
         IF A.err THEN Raise("KeyError")
         ELSE LET es == ExpandEdges(A.keys, A.adj, BuildWeightLookup(edges[g], EmptyLookup))
                  r == RelaxPasses(Len(nodes[g]) - 1, es,
                                   InitDistances(g, heap[src].id), InitPrevious(g))
              IN IF r.err # "none" THEN Raise(r.err)
                 ELSE LET c == CycleCheck(es, r.dist) IN
                      IF c # "none" THEN Raise(c)
                      ELSE Reconstruct(g, r.dist, r.prev, heap[trg].id)

CallBellmanFord(g) ==
    \E src \in Range(nodes[g]), trg \in Range(nodes[g]) :
        /\ ret = NoResult
        /\ ret' = Result("bellman_ford", src, trg, bellman_ford(g, src, trg))
        /\ UNCHANGED <<kind, nodes, edges, heap, registry>>

\* ------------------------------------------- algorithms/set_operations.py
\* _clone_node handing back the node it was given
CloneNodeShared(h, hp) == [heap |-> hp, handle |-> h]

\* _clone_node: a new Node of the same id, its graph left at the default None
CloneNode(h, hp) ==
    [heap |-> Append(hp, [id |-> hp[h].id, graph |-> "none"]), handle |-> Len(hp) + 1]

RECURSIVE CloneNodes(_, _, _)
CloneNodes(hs, hp, acc) ==
    IF hs = <<>> THEN [heap |-> hp, handles |-> acc]
    ELSE LET c == CloneNode(Head(hs), hp)
         IN CloneNodes(Tail(hs), c.heap, Append(acc, c.handle))

\* _clone_edge: a new Edge of the same field values
CloneEdge(e) == Edge(e.id, e.source, e.target, e.weight)

\* _resolve_graph_type, by the subclass relation of the three classes
ResolveGraphType(ka, kb) ==
    IF ka = kb THEN ka
    ELSE IF kb = "Graph" THEN ka
    ELSE IF ka = "Graph" THEN kb
    ELSE "Graph"

\* the add_edge loop of _build_graph: an edge is added when get_node finds
\* both its ends among the nodes of the new graph
RECURSIVE BuildEdges(_, _, _, _)
BuildEdges(k, ids, es, acc) ==
    IF es = <<>> THEN acc
    ELSE LET e == Head(es) IN
         IF e.source \in ids /\ e.target \in ids
         THEN BuildEdges(k, ids, Tail(es), AddEdgeTo(k, acc, e))
         ELSE BuildEdges(k, ids, Tail(es), acc)

\* _build_graph: add_node sets the back-reference of each node it is given
BuildGraph(k, hs, es, hp) ==
    LET hp2 == [h \in 1..Len(hp) |->
                    IF h \in Range(hs) THEN [hp[h] EXCEPT !.graph = "r"] ELSE hp[h]]
    IN [kind |-> k, heap |-> hp2, nodes |-> hs,
        edges |-> BuildEdges(k, {hp[h].id : h \in Range(hs)}, es, <<>>)]

\* nodes_seen: the first node of each id, in order of first occurrence
RECURSIVE FirstByNodeId(_, _)
FirstByNodeId(hs, seen) ==
    IF hs = <<>> THEN <<>>
    ELSE IF heap[Head(hs)].id \in seen THEN FirstByNodeId(Tail(hs), seen)
    ELSE <<Head(hs)>> \o FirstByNodeId(Tail(hs), seen \cup {heap[Head(hs)].id})

\* edges_seen: the first edge of each id, in order of first occurrence
RECURSIVE FirstByEdgeId(_, _)
FirstByEdgeId(es, seen) ==
    IF es = <<>> THEN <<>>
    ELSE IF Head(es).id \in seen THEN FirstByEdgeId(Tail(es), seen)
    ELSE <<CloneEdge(Head(es))>> \o FirstByEdgeId(Tail(es), seen \cup {Head(es).id})

graph_union(x, y) ==
    LET c == CloneNodes(FirstByNodeId(nodes[x] \o nodes[y], {}), heap, <<>>)
    IN BuildGraph(ResolveGraphType(kind[x], kind[y]), c.handles,
                  FirstByEdgeId(edges[x] \o edges[y], {}), c.heap)

EdgeIdSet(g) == {e.id : e \in Range(edges[g])}

\* edges_a = {edge.id: edge for edge in graph_a.edges}: the last edge wins
EdgeById(g, i) ==
    LET idx == {k \in 1..Len(edges[g]) : edges[g][k].id = i}
    IN edges[g][CHOOSE k \in idx : \A j \in idx : j <= k]

\* shared_node_ids: the node ids on both sides, with | in place of &
SharedNodeIdsEither(x, y) == NodeIdSet(x) \cup NodeIdSet(y)

\* shared_node_ids = ids_a.keys() & ids_b.keys()
SharedNodeIds(x, y) == NodeIdSet(x) \cap NodeIdSet(y)

\* shared_edge_ids = edges_a.keys() & edges_b.keys()
SharedEdgeIds(x, y) == EdgeIdSet(x) \cap EdgeIdSet(y)

\* the orders in which a set can be iterated
Orders(S) ==
    {q \in [1..Cardinality(S) -> S] : \A i, j \in 1..Cardinality(S) : q[i] = q[j] => i = j}

\* graph_intersection, the two sets iterated in the orders norder and eorder
graph_intersection(x, y, norder, eorder) ==
    LET shared == SharedNodeIds(x, y)
        pick == [k \in 1..Len(norder) |->
                    IF norder[k] \in NodeIdSet(x) THEN IdToNode(x, norder[k])
                    ELSE IdToNode(y, norder[k])]
        c == CloneNodes(pick, heap, <<>>)
        es == [k \in 1..Len(eorder) |-> EdgeById(x, eorder[k])]
        kept == SelectSeq(es, LAMBDA e : e.source \in shared /\ e.target \in shared)
    IN BuildGraph(ResolveGraphType(kind[x], kind[y]), c.handles,
                  [k \in 1..Len(kept) |-> CloneEdge(kept[k])], c.heap)

\* the new graph becomes graph "r", the value of the call
Built(op, x, y, b) ==
    /\ kind' = [kind EXCEPT !["r"] = b.kind]
    /\ nodes' = [nodes EXCEPT !["r"] = b.nodes]
    /\ edges' = [edges EXCEPT !["r"] = b.edges]
    /\ heap' = b.heap
    /\ registry' = [registry EXCEPT !["r"] = NewRegistry]
    /\ ret' = [NoResult EXCEPT !.op = op, !.ga = x, !.gb = y, !.tag = "graph"]

CallUnion(x, y) ==
    /\ ret = NoResult
    /\ kind[x] # "absent" /\ kind[y] # "absent"
    /\ Built("graph_union", x, y, graph_union(x, y))

CallIntersection(x, y) ==
    /\ ret = NoResult
    /\ kind[x] # "absent" /\ kind[y] # "absent"
    /\ \E norder \in Orders(SharedNodeIds(x, y)), eorder \in Orders(SharedEdgeIds(x, y)) :
          Built("graph_intersection", x, y, graph_intersection(x, y, norder, eorder))

\* ------------------------------------------------------- specifications
EmptyGraphs(ka, kb) ==
    /\ kind = [g \in GraphNames |-> CASE g = "a" -> ka [] g = "b" -> kb [] OTHER -> "absent"]
    /\ nodes = [g \in GraphNames |-> <<>>]
    /\ edges = [g \in GraphNames |-> <<>>]
    /\ heap = <<>>
    /\ registry = [g \in GraphNames |-> IF kind[g] = "absent" THEN NoRegistry ELSE NewRegistry]
    /\ ret = NoResult

\* one graph of any class, built by add_node and add_edge, and the calls of
\* the traversal and shortest-path algorithms on it
Init == \E k \in Kinds : EmptyGraphs(k, "absent")

FreshNodeId(g) == Len(nodes[g]) + 1

NextEdgeId(g) == Len(edges[g]) + 1

EdgeInputs(g, W) == {Edge(NextEdgeId(g), s, t, w) : s \in NodeIds, t \in NodeIds, w \in W}

NoLoop(E) == {e \in E : e.source # e.target}

Next ==
    \/ AddNode("a", FreshNodeId("a"))
    \/ \E e \in EdgeInputs("a", HopWeights) : AddEdge("a", e, MaxEdges)
    \/ CallBfs("a")
    \/ Return

Spec == Init /\ [][Next]_vars

\* weighted graphs, negative weights included, and the two shortest-path calls
NextW ==
    \/ AddNode("a", FreshNodeId("a"))
    \/ \E e \in NoLoop(EdgeInputs("a", Weights)) : AddEdge("a", e, MaxEdges)
    \/ CallDijkstra("a")
    \/ CallBellmanFord("a")
    \/ Return

SpecW == Init /\ [][NextW]_vars

\* graphs of non-negative weights and the two shortest-path calls
NextD ==
    \/ AddNode("a", FreshNodeId("a"))
    \/ \E e \in NoLoop(EdgeInputs("a", NonNegWeights)) : AddEdge("a", e, MaxWeightedEdges)
    \/ CallDijkstra("a")
    \/ CallBellmanFord("a")
    \/ Return

SpecD == Init /\ [][NextD]_vars

\* two graphs of any classes, built by add_node and add_edge, and the set
\* operations on them
InitS == \E ka \in Kinds, kb \in Kinds : EmptyGraphs(ka, kb)

SetNodeIds == 1..MaxSetNodes

SetEdgeInputs(g) == {Edge(NextEdgeId(g), s, t, DefaultWeight) : s \in SetNodeIds, t \in SetNodeIds}

NextS ==
    \/ \E g \in {"a", "b"} : \E i \in SetNodeIds \ NodeIdSet(g) : AddNode(g, i)
    \/ \E g \in {"a", "b"} : \E e \in SetEdgeInputs(g) : AddEdge(g, e, MaxSetEdges)
    \/ \E y \in {"a", "b"} : CallUnion("a", y)
    \/ \E y \in {"a", "b"} : CallIntersection("a", y)
    \/ Return

SpecS == InitS /\ [][NextS]_vars

\* one graph and the calls on its search registry
Aliases == {"", "fast"}
Keys == {"regex", "tf_idf", "bm25", "fast"}
Patterns == {"valid", "invalid"}
StrategyArgs ==
    {<<"none", "">>} \cup {<<"key", k>> : k \in Keys}
                    \cup {<<"instance", s>> : s \in CallerStrategies}

NextR ==
    \/ \E s \in CallerStrategies, al \in Aliases, d \in BOOLEAN :
          RegisterSearchStrategy("a", s, al, d)
    \/ \E k \in Keys : UnregisterSearchStrategy("a", k)
    \/ \E k \in Keys : SetDefaultSearchStrategy("a", k)
    \/ \E p \in Patterns, a \in StrategyArgs : SearchNodes("a", p, a[1], a[2])
    \/ Return

InitR == EmptyGraphs("Graph", "absent")

SpecR == InitR /\ [][NextR]_vars

\* two graphs of any classes that are given new nodes, each other's nodes
\* and edges
NextN ==
    \/ \E g \in {"a", "b"} : \E i \in SetNodeIds \ NodeIdSet(g) :
          Len(heap) < MaxSharedNodes /\ AddNode(g, i)
    \/ \E g \in {"a", "b"} : \E h \in 1..Len(heap) : AddExistingNode(g, h)
    \/ \E g \in {"a", "b"} : \E e \in SetEdgeInputs(g) : AddEdge(g, e, MaxSharedEdges)
    \/ Return

SpecN == InitS /\ [][NextN]_vars

\* one graph of any class, self-loops and parallel edges included, and dfs
NextF ==
    \/ AddNode("a", FreshNodeId("a"))
    \/ \E e \in EdgeInputs("a", {DefaultWeight}) : AddEdge("a", e, MaxDfsEdges)
    \/ CallDfs("a")
    \/ Return

SpecF == Init /\ [][NextF]_vars

\* ------------------------------------------- vocabulary of the properties
PathIds(p) == [k \in 1..Len(p) |-> heap[p[k]].id]

\* every edge of g joins two node ids of g (no dangling edge)
WellFormed(g) ==
    \A e \in Range(edges[g]) : e.source \in NodeIdSet(g) /\ e.target \in NodeIdSet(g)

\* the adjacency view as a relation: Succ(adj)[u] is the set listed under u
Succ(adj) == [u \in DOMAIN adj |-> Range(adj[u])]

SuccOf(succ, u) == IF u \in DOMAIN succ THEN succ[u] ELSE {}

RECURSIVE ReachFrom(_, _)
ReachFrom(succ, R) ==
    LET R2 == R \cup UNION {SuccOf(succ, u) : u \in R}
    IN IF R2 = R THEN R ELSE ReachFrom(succ, R2)

\* the least number of edges of a walk from the set R to t (t reachable)
RECURSIVE HopsTo(_, _, _, _)
HopsTo(succ, R, t, k) ==
    IF t \in R THEN k
    ELSE HopsTo(succ, R \cup UNION {SuccOf(succ, u) : u \in R}, t, k + 1)

\* ids walks the relation from s to t
IsWalk(succ, ids, s, t) ==
    /\ Len(ids) >= 1
    /\ ids[1] = s
    /\ ids[Len(ids)] = t
    /\ \A k \in 1..(Len(ids) - 1) : ids[k + 1] \in SuccOf(succ, ids[k])

\* the simple paths that extend p to t
RECURSIVE SimplePaths(_, _, _)
SimplePaths(succ, p, t) ==
    IF p[Len(p)] = t THEN {p}
    ELSE UNION {SimplePaths(succ, Append(p, v), t) : v \in SuccOf(succ, p[Len(p)]) \ Range(p)}

RECURSIVE CostFrom(_, _, _)
CostFrom(W, ids, k) ==
    IF k >= Len(ids) THEN 0 ELSE W[<<ids[k], ids[k + 1]>>] + CostFrom(W, ids, k + 1)

\* the sum of the weights W of the consecutive steps of ids
Cost(W, ids) == CostFrom(W, ids, 1)

MinOf(S) == CHOOSE x \in S : \A y \in S : x <= y

Steps(succ) == {<<u, v>> \in (DOMAIN succ) \X NodeIds : v \in succ[u]}

\* the weight the two weighted algorithms give each step of the adjacency view
ResolvedWeights(g, succ) ==
    LET lookup == BuildWeightLookup(edges[g], EmptyLookup)
    IN [st \in Steps(succ) |-> ResolveWeight(lookup, st[1], st[2])]

\* the edges of g a step from u to v can take: in a DirectedGraph those from
\* u to v, in the other two classes those between u and v
EdgesOfStep(g, u, v) ==
    {e \in Range(edges[g]) :
        \/ (e.source = u /\ e.target = v)
        \/ (kind[g] # "DirectedGraph" /\ e.source = v /\ e.target = u)}

\* the weight of the lightest edge of g for each step
EdgeWeights(g, succ) ==
    [st \in Steps(succ) |-> MinOf({e.weight : e \in EdgesOfStep(g, st[1], st[2])})]

IsCall(op) ==
    /\ ret.op = op
    /\ heap[ret.src].id # heap[ret.trg].id

\* C1: on a graph of any class whose adjacency view exists, bfs between two
\* distinct member nodes returns None exactly when the target is not reachable
\* in the adjacency view, and otherwise a walk of the view from the source to
\* the target with the least number of edges, whatever the weights.
C1_BfsMinHops ==
    (IsCall("bfs") /\ ~Adjacency("a").err) =>
        LET succ == Succ(Adjacency("a").adj)
            s == heap[ret.src].id
            t == heap[ret.trg].id
        IN /\ ret.tag \in {"None", "path"}
           /\ (ret.tag = "None") <=> (t \notin ReachFrom(succ, {s}))
           /\ (ret.tag = "path") =>
                /\ Range(ret.path) \subseteq Range(nodes["a"])
                /\ IsWalk(succ, PathIds(ret.path), s, t)
                /\ Len(ret.path) - 1 = HopsTo(succ, {s}, t, 0)

\* bfs answers with the direct edge of weight 5 although the way round over
\* a third node weighs 2
C1_Witness ==
    /\ IsCall("bfs")
    /\ ret.tag = "path"
    /\ Len(ret.path) = 2
    /\ kind["a"] = "DirectedGraph"
    /\ \E m \in NodeIds, i, j, k \in 1..Len(edges["a"]) :
          /\ edges["a"][i] = Edge(i, heap[ret.src].id, heap[ret.trg].id, 5)
          /\ edges["a"][j] = Edge(j, heap[ret.src].id, m, 1)
          /\ edges["a"][k] = Edge(k, m, heap[ret.trg].id, 1)

\* e and f connect the same unordered pair of ids
SamePair(e, f) == {e.source, e.target} = {f.source, f.target}

\* C6: in an UndirectedGraph built from no edges by add_edge calls, no two
\* stored edges connect the same unordered pair after any step; a call whose
\* pair is already connected, in either orientation, leaves the edge list as
\* it was, and every other call appends exactly its edge.
C6_UndirectedOneEdgePerPair ==
    [][kind["a"] = "UndirectedGraph" =>
        /\ \A i, j \in 1..Len(edges'["a"]) :
              i # j => ~SamePair(edges'["a"][i], edges'["a"][j])
        /\ \A e \in EdgeInputs("a", HopWeights) :
              AddEdge("a", e, MaxEdges) =>
                edges'["a"] = IF \E k \in 1..Len(edges["a"]) : SamePair(edges["a"][k], e)
                              THEN edges["a"]
                              ELSE Append(edges["a"], e)]_vars

\* an add_edge call was ignored on an UndirectedGraph that stores two edges
\* between different nodes
C6_Witness ==
    /\ kind["a"] = "UndirectedGraph"
    /\ ret.op = "add_edge"
    /\ ret.tag = "ignored"
    /\ Len(edges["a"]) = 2
    /\ \A k \in 1..2 : edges["a"][k].source # edges["a"][k].target

NonNegative(g) == \A e \in Range(edges[g]) : e.weight >= 0

HasNegativeEdge(g) == \E e \in Range(edges[g]) : e.weight < 0

\* the least cost under W of a simple path from s to t (t reachable from s)
MinCost(succ, W, s, t) == MinOf({Cost(W, p) : p \in SimplePaths(succ, <<s>>, t)})

\* C2: on a graph whose edge weights are all non-negative, dijkstra between
\* two distinct member nodes returns None exactly when the target is
\* unreachable, and otherwise a path from the source to the target whose total
\* weight, each step taken over the lightest edge of the graph for it, is the
\* least over all paths the edges of the graph form.
C2_DijkstraMinWeight ==
    (IsCall("dijkstra") /\ WellFormed("a") /\ NonNegative("a")) =>
        LET succ == Succ(Adjacency("a").adj)
            W == EdgeWeights("a", succ)
            s == heap[ret.src].id
            t == heap[ret.trg].id
        IN /\ ret.tag \in {"None", "path"}
           /\ (ret.tag = "None") <=> (t \notin ReachFrom(succ, {s}))
           /\ (ret.tag = "path") =>
                /\ IsWalk(succ, PathIds(ret.path), s, t)
                /\ Cost(W, PathIds(ret.path)) = MinCost(succ, W, s, t)

\* the two outcomes agree: both None, or both a path, of equal cost under the
\* resolved weights
SameOutcome(g, x, y) ==
    \/ x.tag = "None" /\ y.tag = "None"
    \/ /\ x.tag = "path" /\ y.tag = "path"
       /\ LET W == ResolvedWeights(g, Succ(Adjacency(g).adj))
          IN Cost(W, PathIds(x.path)) = Cost(W, PathIds(y.path))

\* C3: on a graph with only non-negative weights and for every pair of member
\* nodes, the outcome of a dijkstra call and what bellman_ford computes for
\* the same pair (and the other way round) are both None, or both a path, the
\* two paths of the same sum of resolved weights.
C3_DijkstraEqualsBellmanFord ==
    /\ (ret.op = "dijkstra" /\ WellFormed("a") /\ NonNegative("a")) =>
            SameOutcome("a", ret, bellman_ford("a", ret.src, ret.trg))
    /\ (ret.op = "bellman_ford" /\ WellFormed("a") /\ NonNegative("a")) =>
            SameOutcome("a", ret, dijkstra("a", ret.src, ret.trg))

\* dijkstra answered with a three-node path on a graph where an edge was
\* stored twice with different weights
C3_Witness ==
    /\ IsCall("dijkstra")
    /\ WellFormed("a")
    /\ ret.tag = "path"
    /\ Len(ret.path) = 3
    /\ \E i, j \in 1..Len(edges["a"]) :
          /\ i < j
          /\ edges["a"][i].source = edges["a"][j].source
          /\ edges["a"][i].target = edges["a"][j].target
          /\ edges["a"][i].weight # edges["a"][j].weight

\* C4: on a graph with a negative edge dijkstra ends in ValueError; it returns
\* neither a path nor None, so in particular never a path that a cheaper path
\* of the graph undercuts.  The formula states that last consequence only.
C4_DijkstraNoSilentWrongPath ==
    (IsCall("dijkstra") /\ WellFormed("a") /\ HasNegativeEdge("a") /\ ret.tag = "path") =>
        LET succ == Succ(Adjacency("a").adj)
            W == EdgeWeights("a", succ)
            s == heap[ret.src].id
            t == heap[ret.trg].id
        IN \A p \in SimplePaths(succ, <<s>>, t) : Cost(W, PathIds(ret.path)) <= Cost(W, p)

\* a cycle of negative total resolved weight can be reached from s
NegativeCycleReachable(succ, W, s) ==
    LET R == ReachFrom(succ, {s})
    IN \E v \in R : \E u \in R :
          /\ v \in SuccOf(succ, u)
          /\ \E p \in SimplePaths(succ, <<v>>, u) : Cost(W, p) + W[<<u, v>>] < 0

\* C5: bellman_ford between two distinct member nodes raises the
\* negative-cycle error (ValueError) when a cycle of negative total weight,
\* over the expanded edges with their resolved weights, is reachable from the
\* source; otherwise it raises nothing and returns None exactly when the
\* target is unreachable, else a path of least cost under those weights.
C5_BellmanFordNegativeCycle ==
    (IsCall("bellman_ford") /\ WellFormed("a")) =>
        LET succ == Succ(Adjacency("a").adj)
            W == ResolvedWeights("a", succ)
            s == heap[ret.src].id
            t == heap[ret.trg].id
        IN IF NegativeCycleReachable(succ, W, s)
           THEN ret.tag = "ValueError"
           ELSE /\ ret.tag \in {"None", "path"}
                /\ (ret.tag = "None") <=> (t \notin ReachFrom(succ, {s}))
                /\ (ret.tag = "path") =>
                     /\ IsWalk(succ, PathIds(ret.path), s, t)
                     /\ Cost(W, PathIds(ret.path)) = MinCost(succ, W, s, t)

\* the cycle is raised on a directed graph whose negative cycle does not
\* pass through the source
C5_Witness ==
    /\ IsCall("bellman_ford")
    /\ WellFormed("a")
    /\ kind["a"] = "DirectedGraph"
    /\ ret.tag = "ValueError"
    /\ \A e \in Range(edges["a"]) : e.target # heap[ret.src].id

\* ------------------------------------------------------- set operations
IsSetCall(op) == ret.op = op /\ kind["r"] # "absent"

\* C7: for a graph G of any class built by add_node and add_edge calls,
\* graph_union(G, G) has the node ids of G and the edge ids of G
C7_UnionWithItself ==
    (IsSetCall("graph_union") /\ ret.ga = ret.gb) =>
        /\ NodeIdSet("r") = NodeIdSet(ret.ga)
        /\ EdgeIdSet("r") = EdgeIdSet(ret.ga)

\* the node ids that both graphs have
NodeIdsOfBoth(x, y) == {i \in NodeIdSet(x) : i \in NodeIdSet(y)}

\* the edge ids of both graphs whose edge, as graph g stores it, has both ends
\* among the node ids of both graphs
EligibleEdgeIds(x, y, g) ==
    {i \in EdgeIdSet(x) :
        /\ i \in EdgeIdSet(y)
        /\ EdgeById(g, i).source \in NodeIdsOfBoth(x, y)
        /\ EdgeById(g, i).target \in NodeIdsOfBoth(x, y)}

\* C8 as stated: graph_intersection(A, B) has the node ids of both graphs,
\* and its edge ids are exactly the edge ids of both graphs whose source and
\* target are node ids of both graphs (the ends read from either graph)
C8_IntersectionIds ==
    IsSetCall("graph_intersection") =>
        /\ NodeIdSet("r") = NodeIdsOfBoth(ret.ga, ret.gb)
        /\ \/ EdgeIdSet("r") = EligibleEdgeIds(ret.ga, ret.gb, ret.ga)
           \/ EdgeIdSet("r") = EligibleEdgeIds(ret.ga, ret.gb, ret.gb)

\* C8: graph_intersection(A, B) has the node ids of both graphs; its edge ids
\* are edge ids of both graphs whose source and target, as A stores them, are
\* node ids of both graphs; each such edge id is present, except that a result
\* of class UndirectedGraph keeps one edge per unordered pair of ends
C8_IntersectionIdsPerPair ==
    IsSetCall("graph_intersection") =>
        LET el == EligibleEdgeIds(ret.ga, ret.gb, ret.ga) IN
        /\ NodeIdSet("r") = NodeIdsOfBoth(ret.ga, ret.gb)
        /\ EdgeIdSet("r") \subseteq el
        /\ \A e \in Range(edges["r"]) : e = EdgeById(ret.ga, e.id)
        /\ \A i \in el :
              \/ i \in EdgeIdSet("r")
              \/ /\ kind["r"] = "UndirectedGraph"
                 /\ \E e \in Range(edges["r"]) : SamePair(e, EdgeById(ret.ga, i))

\* an intersection of class UndirectedGraph that kept one of two edges of a pair
C8_Witness ==
    /\ IsSetCall("graph_intersection")
    /\ ret.ga # ret.gb
    /\ kind["r"] = "UndirectedGraph"
    /\ Len(nodes["r"]) = 2
    /\ Len(edges["r"]) = 1
    /\ Cardinality(EligibleEdgeIds(ret.ga, ret.gb, ret.ga)) = 2

\* C9: a step that is a graph_union or graph_intersection call leaves the node
\* and edge sequences of both inputs and the back-reference of every node that
\* existed before the call as they were, and every node of the result reports
\* the result as its graph
C9_BuiltFromClones ==
    [][(ret.op = "none" /\ ret'.op \in {"graph_union", "graph_intersection"}) =>
        /\ \A g \in {"a", "b"} : nodes'[g] = nodes[g] /\ edges'[g] = edges[g]
        /\ \A h \in 1..Len(heap) : heap'[h] = heap[h]
        /\ \A h \in Range(nodes'["r"]) : heap'[h].graph = "r"]_vars

\* a union of two graphs that has a node from each of them and an edge
C9_Witness ==
    /\ IsSetCall("graph_union")
    /\ ret.ga # ret.gb
    /\ nodes["a"] # <<>> /\ nodes["b"] # <<>>
    /\ Len(nodes["r"]) = 2
    /\ edges["r"] # <<>>
    /\ \A h \in Range(nodes["r"]) : heap[h].graph = "r"
    /\ \A g \in {"a", "b"} : \A h \in Range(nodes[g]) : heap[h].graph = g

\* ------------------------------------------------------- search registry
\* C10: in every registry state register, unregister and set_default calls
\* lead to, search_nodes runs the strategy object it is given; else the
\* strategy registered under the key it is given; else the registered
\* default; else the first registered strategy. It raises
\* UnknownStrategyError exactly when the key it is given is not registered,
\* or when it is given no strategy and none is registered, and then no search
\* has run
C10_SearchStrategyResolution ==
    ret.op = "search_nodes" =>
        LET sts == registry["a"].strategies
            default == registry["a"].default
            hasDefault == \E i \in 1..Len(sts) : sts[i].key = default
            unknown == ret.tag = "UnknownStrategyError"
        IN
        /\ ret.argtype = "instance" => ret.strategy = ret.arg
        /\ ret.argtype = "key" =>
              \A i \in 1..Len(sts) : sts[i].key = ret.arg => ret.strategy = sts[i].strategy
        /\ (ret.argtype = "none" /\ hasDefault) =>
              \A i \in 1..Len(sts) : sts[i].key = default => ret.strategy = sts[i].strategy
        /\ (ret.argtype = "none" /\ ~hasDefault /\ sts # <<>>) => ret.strategy = sts[1].strategy
        /\ unknown <=>
              \/ ret.argtype = "key" /\ \A i \in 1..Len(sts) : sts[i].key # ret.arg
              \/ ret.argtype = "none" /\ sts = <<>>
        /\ unknown => ret.strategy = ""
        /\ ~unknown => ret.tag = RunSearch(ret.strategy, "valid")
                         \/ ret.tag = RunSearch(ret.strategy, "invalid")

\* a search given no strategy ran the default, which is not the strategy
\* registered first
C10_Witness ==
    /\ ret.op = "search_nodes"
    /\ ret.argtype = "none"
    /\ Len(registry["a"].strategies) = 3
    /\ registry["a"].default = "fast"
    /\ registry["a"].strategies[1].key = "regex"
    /\ ret.strategy = "TFIDFNodeSearch()"
    /\ ret.tag = "NotImplementedError"

\* ------------------------------------------------------- adjacency view
\* how often v is listed in the sequence l
Occurrences(l, v) == Cardinality({k \in 1..Len(l) : l[k] = v})

\* C11: for a graph of any class built by add_node and add_edge calls,
\* reading adjacency succeeds and its keys are the node ids of the graph; on a
\* DirectedGraph v is listed under u only for an edge from u to v; on a base
\* Graph and an UndirectedGraph v is listed under u as often as u under v
C11_AdjacencyView ==
    LET view == Adjacency("a") IN
    kind["a"] # "absent" =>
        /\ ~view.err
        /\ DOMAIN view.adj = NodeIdSet("a")
        /\ kind["a"] = "DirectedGraph" =>
              \A u \in DOMAIN view.adj : \A k \in 1..Len(view.adj[u]) :
                  \E e \in Range(edges["a"]) : e.source = u /\ e.target = view.adj[u][k]
        /\ kind["a"] # "DirectedGraph" =>
              \A u, v \in DOMAIN view.adj :
                  Occurrences(view.adj[u], v) = Occurrences(view.adj[v], u)

\* ------------------------------------------------------- depth-first search
\* the recursive depth-first search: arrive at u by path, end at t, else go to
\* the neighbours not yet visited, by the list nbrs of u from left to right;
\* visited is shared by the whole search
RECURSIVE Recursive(_, _, _, _, _, _)
Recursive(adj, t, u, path, nbrs, visited) ==
    IF u = t THEN [found |-> TRUE, path |-> path, visited |-> visited]
    ELSE IF nbrs = <<>> THEN [found |-> FALSE, path |-> <<>>, visited |-> visited]
    ELSE LET n == Head(nbrs) IN
         IF n \in visited THEN Recursive(adj, t, u, path, Tail(nbrs), visited)
         ELSE LET r == Recursive(adj, t, n, Append(path, n), AdjGet(adj, n),
                                 visited \cup {n})
              IN IF r.found THEN r
                 ELSE Recursive(adj, t, u, path, Tail(nbrs), r.visited)

RecursiveDfs(adj, s, t) == Recursive(adj, t, s, <<s>>, AdjGet(adj, s), {s})

\* C12: on a graph of any class whose adjacency view exists, dfs between two
\* members of distinct ids returns the path the recursive depth-first search
\* finds, and both return None exactly when the target is not reachable
C12_DfsIsRecursiveDfs ==
    (IsCall("dfs") /\ ~Adjacency("a").err) =>
        LET adj == Adjacency("a").adj
            s == heap[ret.src].id
            t == heap[ret.trg].id
            rec == RecursiveDfs(adj, s, t)
        IN /\ ret.tag \in {"None", "path"}
           /\ (ret.tag = "None") <=> (t \notin ReachFrom(Succ(adj), {s}))
           /\ (ret.tag = "None") <=> ~rec.found
           /\ (ret.tag = "path") =>
                /\ Range(ret.path) \subseteq Range(nodes["a"])
                /\ PathIds(ret.path) = rec.path

\* dfs goes by the first neighbour to the target although the target is a
\* later neighbour of the source itself
C12_Witness ==
    /\ IsCall("dfs")
    /\ kind["a"] = "DirectedGraph"
    /\ ret.tag = "path"
    /\ Len(ret.path) = 3
    /\ LET adj == Adjacency("a").adj
       IN /\ ~Adjacency("a").err
          /\ Len(adj[heap[ret.src].id]) = 2
          /\ adj[heap[ret.src].id][2] = heap[ret.trg].id

\* ------------------------------------------------------- default strategy
\* the default key is no key or a registered key, and it is no key exactly
\* when nothing is registered
DefaultIsRegistered(g) ==
    LET sts == registry[g].strategies
        default == registry[g].default
    IN /\ default = "None" \/ \E i \in 1..Len(sts) : sts[i].key = default
       /\ default = "None" <=> sts = <<>>

\* C13: in every registry state register, unregister and set_default calls
\* lead to from construction, the default key is absent or a registered key,
\* and absent exactly when no strategy is registered; a set_default call that
\* raises leaves the registered strategies and the default as they were
C13_DefaultKey ==
    /\ []DefaultIsRegistered("a")
    /\ [][(ret'.op = "set_default_search_strategy" /\ ret'.tag = "UnknownStrategyError")
             => registry' = registry]_vars

\* set_default raised for the key that was unregistered, the last one, and
\* the registry is empty with no default
C13_Witness ==
    /\ ret.op = "set_default_search_strategy"
    /\ ret.tag = "UnknownStrategyError"
    /\ ret.arg = "regex"
    /\ registry["a"] = NoRegistry

\* ------------------------------------------------------- back-references
\* C14: over two graphs, the graph a node reports changes only in the step
\* that adds the node to that graph; a step that adds a node to a graph
\* appends it to the node sequence of that graph, makes it report that graph
\* and leaves every other node as it was; a step that stores an edge leaves
\* every node as it was
C14_BackReference ==
    [][/\ \A h \in 1..Len(heap') :
             (h > Len(heap) \/ heap'[h].graph # heap[h].graph) =>
                 /\ heap'[h].graph \in {"a", "b"}
                 /\ nodes'[heap'[h].graph] = Append(nodes[heap'[h].graph], h)
       /\ \A g \in {"a", "b"} :
             nodes'[g] # nodes[g] =>
                 \E h \in 1..Len(heap') :
                     /\ nodes'[g] = Append(nodes[g], h)
                     /\ heap'[h].graph = g
                     /\ \A o \in 1..Len(heap) : o # h => heap'[o] = heap[o]
                     /\ \A o \in {"a", "b"} : o # g => nodes'[o] = nodes[o]
       /\ edges' # edges => heap' = heap]_vars

\* a node of graph "a" was added to graph "b" and then to graph "a" again: it
\* is in both sequences, twice in that of "a", and reports "a", while another
\* node of "b" reports "b"
C14_Witness ==
    \E h \in 1..Len(heap) :
        /\ Len(nodes["a"]) = 2
        /\ nodes["a"][1] = h /\ nodes["a"][2] = h
        /\ h \in Range(nodes["b"])
        /\ heap[h].graph = "a"
        /\ \E o \in Range(nodes["b"]) : o # h /\ heap[o].graph = "b"
        /\ edges["b"] # <<>>

================================================================================
